---- MODULE Spec2Model ----
(***************************************************************************)
(* Model of anzenlite (static/v3/app.js): the passphrase codec             *)
(* (encodeMessage / decodeMessage over Web Crypto) and the Vue component   *)
(* that masks typed input and reveals decoded text step by step.           *)
(*                                                                         *)
(* Strings are sequences of UTF-16 code units (numbers), byte arrays are   *)
(* sequences of numbers in 0..255.                                         *)
(***************************************************************************)
EXTENDS Integers, Sequences, FiniteSets, TLC

\* ------------------------------------------------------------------ bounds
MaxPending == 2      \* handleAction calls suspended at their await at once
MaxTimers == 2       \* reveal runs alive (suspended or stepping) at once
MaxMsgLen == 3       \* longest message typed into the field in encode mode
MaxPlainLen == 3     \* longest plaintext handed to encodeMessage directly

\* ------------------------------------------------------- program constants
SaltLen == 16        \* new Uint8Array(16)
IvLen == 12          \* new Uint8Array(12)
HeaderLen == 28      \* payload.byteLength <= 28, payload.slice(28)
TagLen == 16         \* AES-GCM default tag length (128 bits)

\* ----------------------------------------------------------- string tools
Empty == << >>

RECURSIVE SumRange(_, _, _)
\* the sum of s[lo..hi], split in halves to keep the evaluation shallow
SumRange(s, lo, hi) ==
  IF lo > hi THEN 0
  ELSE IF lo = hi THEN s[lo]
  ELSE SumRange(s, lo, (lo + hi) \div 2) + SumRange(s, (lo + hi) \div 2 + 1, hi)

Sum(s) == SumRange(s, 1, Len(s))

RECURSIVE ConcatRange(_, _, _)
ConcatRange(ss, lo, hi) ==
  IF lo > hi THEN << >>
  ELSE IF lo = hi THEN ss[lo]
  ELSE ConcatRange(ss, lo, (lo + hi) \div 2) \o ConcatRange(ss, (lo + hi) \div 2 + 1, hi)

\* Array.prototype.join('') of a sequence of strings
Concat(ss) == ConcatRange(ss, 1, Len(ss))

\* String.prototype.slice(a, b) for 0 <= a, 0 <= b (0-based, end exclusive)
Slice(s, a, b) ==
  LET lo == IF a > Len(s) THEN Len(s) ELSE a
      hi == IF b > Len(s) THEN Len(s) ELSE b
  IN IF hi <= lo THEN << >> ELSE SubSeq(s, lo + 1, hi)

\* String.prototype.slice(a)
SliceFrom(s, a) == Slice(s, a, Len(s))

\* the regular expression class \s
IsSpace(c) ==
  c \in {9, 10, 11, 12, 13, 32, 160, 5760, 8232, 8233, 8239, 8287, 12288, 65279}
  \/ (c >= 8192 /\ c <= 8202)

\* text.trim() === ''
IsBlank(s) == \A i \in 1..Len(s) : IsSpace(s[i])

Repeat(c, n) == [i \in 1..n |-> c]

\* a replace that spares the sentence terminators: /[^\s.!?]/g
MaskNonSpaceKeepTerminators(s) ==
  [i \in 1..Len(s) |-> IF IsSpace(s[i]) \/ s[i] \in {46, 33, 63} THEN s[i] ELSE 42]

\* segment.replace(/[^\s]/g, '*')
MaskNonSpace(s) == [i \in 1..Len(s) |-> IF IsSpace(s[i]) THEN s[i] ELSE 42]

\* ----------------------------------------------------------------- base64
\* the base64 alphabet: value 0..63 -> code unit
B64Char(v) ==
  IF v < 26 THEN 65 + v
  ELSE IF v < 52 THEN 97 + (v - 26)
  ELSE IF v < 62 THEN 48 + (v - 52)
  ELSE IF v = 62 THEN 43 ELSE 47

IsB64Char(c) ==
  (c >= 65 /\ c <= 90) \/ (c >= 97 /\ c <= 122) \/ (c >= 48 /\ c <= 57) \/ c = 43 \/ c = 47

B64Val(c) ==
  IF c >= 65 /\ c <= 90 THEN c - 65
  ELSE IF c >= 97 /\ c <= 122 THEN c - 97 + 26
  ELSE IF c >= 48 /\ c <= 57 THEN c - 48 + 52
  ELSE IF c = 43 THEN 62 ELSE 63

\* the k-th character (k in 1..4) of the base64 group of the bytes b[i..i+2]
B64Group(b, i, k) ==
  LET b1 == b[i]
      b2 == IF i + 1 <= Len(b) THEN b[i + 1] ELSE 0
      b3 == IF i + 2 <= Len(b) THEN b[i + 2] ELSE 0
  IN IF k = 1 THEN B64Char(b1 \div 4)
     ELSE IF k = 2 THEN B64Char((b1 % 4) * 16 + (b2 \div 16))
     ELSE IF k = 3 THEN (IF i + 1 <= Len(b) THEN B64Char((b2 % 16) * 4 + (b3 \div 64)) ELSE 61)
     ELSE (IF i + 2 <= Len(b) THEN B64Char(b3 % 64) ELSE 61)

\* btoa over a binary string whose code units are the bytes: four characters
\* for every three bytes, padded with '='
Btoa(b) ==
  [n \in 1..(4 * ((Len(b) + 2) \div 3)) |-> B64Group(b, 3 * ((n - 1) \div 4) + 1, ((n - 1) % 4) + 1)]

\* toBase64(buffer): the bytes become a binary string, then btoa
toBase64(bytes) == Btoa(bytes)

\* the bytes of a sequence of 6-bit values: three bytes for every four values
\* (a last group of 2 or 3 values drops its unused low bits)
B64Bytes(v) ==
  LET count == 3 * (Len(v) \div 4)
               + (IF (Len(v) % 4) = 2 THEN 1 ELSE IF (Len(v) % 4) = 3 THEN 2 ELSE 0)
  IN [n \in 1..count |->
       LET g == 4 * ((n - 1) \div 3)
           k == (n - 1) % 3
       IN IF k = 0 THEN v[g + 1] * 4 + (v[g + 2] \div 16)
          ELSE IF k = 1 THEN (v[g + 2] % 16) * 16 + (v[g + 3] \div 4)
          ELSE (v[g + 3] % 4) * 64 + v[g + 4]]

\* atob(input): ASCII whitespace is dropped, one or two trailing '=' are
\* dropped when the length is a multiple of 4, then a length of 1 mod 4 or
\* any code unit outside the alphabet throws InvalidCharacterError.
Atob(input) ==
  LET stripped == SelectSeq(input, LAMBDA c : c \notin {9, 10, 12, 13, 32})
      n == Len(stripped)
      unpadded ==
        IF n > 0 /\ (n % 4) = 0
        THEN IF stripped[n] = 61 /\ stripped[n - 1] = 61 THEN SubSeq(stripped, 1, n - 2)
             ELSE IF stripped[n] = 61 THEN SubSeq(stripped, 1, n - 1)
             ELSE stripped
        ELSE stripped
  IN IF (Len(unpadded) % 4) = 1 \/ \E i \in 1..Len(unpadded) : ~IsB64Char(unpadded[i])
     THEN [ok |-> FALSE, bytes |-> << >>]
     ELSE [ok |-> TRUE,
           bytes |-> B64Bytes([i \in 1..Len(unpadded) |-> B64Val(unpadded[i])])]

\* fromBase64(input): atob, then the code units of the binary string
fromBase64(input) == Atob(input)

\* ------------------------------------------------------------------ UTF-8
IsHighSurrogate(c) == c >= 55296 /\ c <= 56319
IsLowSurrogate(c) == c >= 56320 /\ c <= 57343

\* the UTF-8 bytes of a code point
Utf8OfCodePoint(cp) ==
  IF cp < 128 THEN << cp >>
  ELSE IF cp < 2048 THEN << 192 + (cp \div 64), 128 + (cp % 64) >>
  ELSE IF cp < 65536 THEN
    << 224 + (cp \div 4096), 128 + ((cp \div 64) % 64), 128 + (cp % 64) >>
  ELSE << 240 + (cp \div 262144), 128 + ((cp \div 4096) % 64),
          128 + ((cp \div 64) % 64), 128 + (cp % 64) >>

\* encoder.encode(text): a surrogate pair is one code point, a lone
\* surrogate is encoded as U+FFFD
Utf8Encode(s) ==
  Concat([i \in 1..Len(s) |->
    IF IsHighSurrogate(s[i]) /\ i < Len(s) /\ IsLowSurrogate(s[i + 1])
      THEN Utf8OfCodePoint(65536 + (s[i] - 55296) * 1024 + (s[i + 1] - 56320))
    ELSE IF IsLowSurrogate(s[i]) /\ i > 1 /\ IsHighSurrogate(s[i - 1]) THEN << >>
    ELSE IF IsHighSurrogate(s[i]) \/ IsLowSurrogate(s[i]) THEN Utf8OfCodePoint(65533)
    ELSE Utf8OfCodePoint(s[i])])

IsCont(b, i) == i <= Len(b) /\ b[i] >= 128 /\ b[i] <= 191

RECURSIVE Utf8DecodeFrom(_)
\* the non-fatal UTF-8 decoder: an ill-formed byte gives U+FFFD
Utf8DecodeFrom(b) ==
  IF b = << >> THEN << >>
  ELSE IF b[1] < 128 THEN << b[1] >> \o Utf8DecodeFrom(Tail(b))
  ELSE IF b[1] >= 194 /\ b[1] <= 223 /\ IsCont(b, 2)
    THEN << (b[1] - 192) * 64 + (b[2] - 128) >> \o Utf8DecodeFrom(SubSeq(b, 3, Len(b)))
  ELSE IF b[1] >= 224 /\ b[1] <= 239 /\ IsCont(b, 2) /\ IsCont(b, 3)
          /\ (b[1] - 224) * 4096 + (b[2] - 128) * 64 + (b[3] - 128) >= 2048
          /\ ~IsHighSurrogate((b[1] - 224) * 4096 + (b[2] - 128) * 64 + (b[3] - 128))
          /\ ~IsLowSurrogate((b[1] - 224) * 4096 + (b[2] - 128) * 64 + (b[3] - 128))
    THEN << (b[1] - 224) * 4096 + (b[2] - 128) * 64 + (b[3] - 128) >>
         \o Utf8DecodeFrom(SubSeq(b, 4, Len(b)))
  ELSE IF b[1] >= 240 /\ b[1] <= 244 /\ IsCont(b, 2) /\ IsCont(b, 3) /\ IsCont(b, 4)
          /\ (b[1] - 240) * 262144 + (b[2] - 128) * 4096 + (b[3] - 128) * 64 + (b[4] - 128) >= 65536
          /\ (b[1] - 240) * 262144 + (b[2] - 128) * 4096 + (b[3] - 128) * 64 + (b[4] - 128) <= 1114111
    THEN LET cp == (b[1] - 240) * 262144 + (b[2] - 128) * 4096 + (b[3] - 128) * 64 + (b[4] - 128)
         IN << 55296 + ((cp - 65536) \div 1024), 56320 + ((cp - 65536) % 1024) >>
            \o Utf8DecodeFrom(SubSeq(b, 5, Len(b)))
  ELSE << 65533 >> \o Utf8DecodeFrom(Tail(b))

\* decoder.decode(buffer): new TextDecoder() drops a leading byte order mark
Utf8Decode(b) ==
  IF Len(b) >= 3 /\ b[1] = 239 /\ b[2] = 187 /\ b[3] = 191
  THEN Utf8DecodeFrom(SubSeq(b, 4, Len(b)))
  ELSE Utf8DecodeFrom(b)

\* ------------------------------------------------------------- Web Crypto
\* PBKDF2 (100000 rounds, SHA-256) modelled as an injective function of the
\* encoded passphrase and the salt: the key is named by what it is derived from.
deriveKey(passkey, salt) == [pass |-> Utf8Encode(passkey), salt |-> salt]

\* AES-256-GCM modelled by its contract: a keystream that depends on key and
\* nonce, and a 16-byte tag in which the passphrase, the salt, the nonce and
\* the ciphertext each have bytes of their own, so that no change of one of
\* them is made up for by a change of another.
KeyStream(key, iv) == (Sum(key.pass) + Sum(key.salt) + Sum(iv)) % 256

\* the sum of the bytes, each weighted by its position
WeightedSum(s) == Sum([i \in 1..Len(s) |-> i * s[i]])

TagPart(key, iv, ct, j) ==
  LET part == IF (j % 4) = 1 THEN key.pass
              ELSE IF (j % 4) = 2 THEN key.salt
              ELSE IF (j % 4) = 3 THEN iv ELSE ct
  IN IF j <= 4 \/ j > 8 THEN Sum(part) + Len(part) ELSE WeightedSum(part)

GcmTag(key, iv, ct) == [j \in 1..TagLen |-> (TagPart(key, iv, ct, j) + j) % 256]

\* crypto.subtle.encrypt({ name: 'AES-GCM', iv }, key, bytes): ciphertext || tag
AesGcmEncrypt(key, iv, pt) ==
  LET ct == [i \in 1..Len(pt) |-> (pt[i] + KeyStream(key, iv)) % 256]
  IN ct \o GcmTag(key, iv, ct)

\* crypto.subtle.decrypt({ name: 'AES-GCM', iv }, key, data): rejects with an
\* OperationError when data is shorter than a tag or the tag does not match
AesGcmDecrypt(key, iv, data) ==
  IF Len(data) < TagLen
  THEN [ok |-> FALSE, bytes |-> << >>, cause |-> "short_data"]
  ELSE LET ct == SubSeq(data, 1, Len(data) - TagLen)
           tag == SubSeq(data, Len(data) - TagLen + 1, Len(data))
       IN IF tag # GcmTag(key, iv, ct)
          THEN [ok |-> FALSE, bytes |-> << >>, cause |-> "bad_tag"]
          ELSE [ok |-> TRUE,
                bytes |-> [i \in 1..Len(ct) |-> (ct[i] + 256 - KeyStream(key, iv)) % 256],
                cause |-> "none"]

\* ------------------------------------------------------------------ codec
\* the messages of the errors the codec throws
ErrEmptyPass == "Passphrase cannot be empty"
ErrNoCrypto == "Web Crypto API is unavailable in this browser."
ErrPayload == "Invalid cipher payload."
ErrAuth == "Invalid passphrase or corrupted data"
\* the DOMException atob throws (its message text is the browser's)
ErrAtob == "InvalidCharacterError"
\* the rejection of crypto.subtle.decrypt, which decodeMessage catches
ErrOperation == "OperationError"

\* the result of an async codec call: fulfilled with value, or rejected with
\* error; steps names the stages the call reached before it settled
Fulfilled(v, st) == [ok |-> TRUE, value |-> v, error |-> "", steps |-> st, cause |-> "none"]
Rejected(e, c, st) == [ok |-> FALSE, value |-> << >>, error |-> e, steps |-> st, cause |-> c]

\* encodeMessage(plainText, passkey), with cryptoOk telling whether
\* crypto.subtle exists and salt, iv the values getRandomValues returns
encodeMessage(plainText, passkey, cryptoOk, salt, iv) ==
  IF passkey = << >> THEN Rejected(ErrEmptyPass, "empty_pass", {})
  ELSE IF ~cryptoOk THEN Rejected(ErrNoCrypto, "no_crypto", {})
  ELSE LET key == deriveKey(passkey, salt)
           cipherBuffer == AesGcmEncrypt(key, iv, Utf8Encode(plainText))
           payload == salt \o iv \o cipherBuffer
       IN Fulfilled(toBase64(payload), {"random", "deriveKey", "encrypt", "toBase64"})

\* DecryptPayload without its catch block: the rejection of crypto.subtle
\* reaches the caller as it is
DecryptPayloadUncaught(payload, passkey) ==
  LET key == deriveKey(passkey, Slice(payload, 0, SaltLen))
      plain == AesGcmDecrypt(key, Slice(payload, SaltLen, HeaderLen), SliceFrom(payload, HeaderLen))
  IN IF plain.ok
     THEN Fulfilled(Utf8Decode(plain.bytes), {"fromBase64", "deriveKey", "decrypt", "utf8"})
     ELSE Rejected(ErrOperation, plain.cause, {"fromBase64", "deriveKey", "decrypt"})

\* DecryptPayload with a catch block that returns '' instead of throwing
DecryptPayloadSwallowed(payload, passkey) ==
  LET key == deriveKey(passkey, Slice(payload, 0, SaltLen))
      plain == AesGcmDecrypt(key, Slice(payload, SaltLen, HeaderLen), SliceFrom(payload, HeaderLen))
  IN Fulfilled(IF plain.ok THEN Utf8Decode(plain.bytes) ELSE Empty,
               {"fromBase64", "deriveKey", "decrypt", "utf8"})

\* lines 86-96 of decodeMessage: split the payload, derive, decrypt, decode;
\* every rejection inside the try block is rethrown as the one generic error
DecryptPayload(payload, passkey) ==
  LET salt == Slice(payload, 0, SaltLen)
      iv == Slice(payload, SaltLen, HeaderLen)
      data == SliceFrom(payload, HeaderLen)
      key == deriveKey(passkey, salt)
      plain == AesGcmDecrypt(key, iv, data)
  IN IF plain.ok
     THEN Fulfilled(Utf8Decode(plain.bytes), {"fromBase64", "deriveKey", "decrypt", "utf8"})
     ELSE Rejected(ErrAuth, plain.cause, {"fromBase64", "deriveKey", "decrypt"})

\* DecodePayload with the length guard written < 28
DecodePayloadOffByOne(cipherText, passkey) ==
  LET payload == fromBase64(cipherText)
  IN IF ~payload.ok THEN Rejected(ErrAtob, "bad_base64", {"fromBase64"})
     ELSE IF Len(payload.bytes) < HeaderLen
       THEN Rejected(ErrPayload, "short_payload", {"fromBase64"})
     ELSE DecryptPayload(payload.bytes, passkey)

\* lines 81-84 of decodeMessage: base64, then the length guard
DecodePayload(cipherText, passkey) ==
  LET payload == fromBase64(cipherText)
  IN IF ~payload.ok THEN Rejected(ErrAtob, "bad_base64", {"fromBase64"})
     ELSE IF Len(payload.bytes) <= HeaderLen
       THEN Rejected(ErrPayload, "short_payload", {"fromBase64"})
     ELSE DecryptPayload(payload.bytes, passkey)

\* decodeMessage with ensureWebCrypto() called before the passphrase check
decodeMessageCryptoFirst(cipherText, passkey, cryptoOk) ==
  IF ~cryptoOk THEN Rejected(ErrNoCrypto, "no_crypto", {})
  ELSE IF passkey = << >> THEN Rejected(ErrEmptyPass, "empty_pass", {})
  ELSE DecodePayload(cipherText, passkey)

\* decodeMessage(cipherText, passkey)
decodeMessage(cipherText, passkey, cryptoOk) ==
  IF passkey = << >> THEN Rejected(ErrEmptyPass, "empty_pass", {})
  ELSE IF ~cryptoOk THEN Rejected(ErrNoCrypto, "no_crypto", {})
  ELSE DecodePayload(cipherText, passkey)

\* a codec call that settles before it reaches a Web Crypto operation resumes
\* its caller in the same task; one that reaches deriveKey suspends it
Suspends(outcome) == "deriveKey" \in outcome.steps

\* ---------------------------------------------------------- input masking
\* the length of the run of characters like text[1] that starts the text
RunLength(text) ==
  LET breaks == {i \in 2..Len(text) : IsSpace(text[i]) # IsSpace(text[1])}
  IN IF breaks = {} THEN Len(text)
     ELSE (CHOOSE i \in breaks : \A k \in breaks : i <= k) - 1

RECURSIVE Tokens(_)
\* text.match(/(\S+|\s+)/g) || []: the maximal runs of non-whitespace and
\* of whitespace, in order
Tokens(text) ==
  IF text = << >> THEN << >>
  ELSE LET n == RunLength(text)
       IN << SubSeq(text, 1, n) >> \o Tokens(SubSeq(text, n + 1, Len(text)))

\* computeDisplayMessage that masks the last word whatever maskLastWord is
computeDisplayMessageAllMasked(text, maskLastWord) == MaskNonSpace(text)

\* computeDisplayMessage(text, maskLastWord)
computeDisplayMessage(text, maskLastWord) ==
  LET tokens == Tokens(text)
      words == {i \in 1..Len(tokens) : ~IsSpace(tokens[i][1])}
      lastWordIndex == IF words = {} THEN 0 ELSE CHOOSE i \in words : \A k \in words : k <= i
  IN IF lastWordIndex = 0 THEN text
     ELSE Concat([i \in 1..Len(tokens) |->
            IF IsSpace(tokens[i][1]) THEN tokens[i]
            ELSE IF maskLastWord \/ i # lastWordIndex THEN Repeat(42, Len(tokens[i]))
            ELSE tokens[i]])

\* --------------------------------------------------------- reveal masking
IsTerminator(c) == c \in {46, 33, 63}

\* the end of the whitespace run that starts at 0-based position end
RECURSIVE SkipSpaces(_, _)
SkipSpaces(text, end) ==
  IF end < Len(text) /\ IsSpace(text[end + 1]) THEN SkipSpaces(text, end + 1) ELSE end

RECURSIVE SplitFrom(_, _, _)
\* the loop of splitIntoSentences with its 0-based start and i
SplitFrom(text, start, i) ==
  IF i >= Len(text)
  THEN IF start < Len(text) THEN << SliceFrom(text, start) >> ELSE << >>
  ELSE IF IsTerminator(text[i + 1]) /\ (i + 1 >= Len(text) \/ IsSpace(text[i + 2]))
    THEN LET end == SkipSpaces(text, i + 1)
         IN IF end > start
            THEN << Slice(text, start, end) >> \o SplitFrom(text, end, end)
            ELSE SplitFrom(text, start, i + 1)
  ELSE SplitFrom(text, start, i + 1)

\* splitIntoSentences(text); filter(Boolean) drops empty segments
splitIntoSentences(text) == SelectSeq(SplitFrom(text, 0, 0), LAMBDA seg : seg # << >>)

Max(a, b) == IF a > b THEN a ELSE b

\* maskLeadingPortion(segment)
maskLeadingPortion(segment) ==
  IF segment = << >> THEN << >>
  ELSE LET keepCharacters == Max(6, Len(segment) \div 4)
           maskLength == Max(0, Len(segment) - keepCharacters)
       IN MaskNonSpace(Slice(segment, 0, maskLength)) \o SliceFrom(segment, maskLength)

\* computeMaskedDecoded with a window of two sentences
computeMaskedDecodedWindowTwo(text) ==
  IF text = << >> THEN << >>
  ELSE LET sentences == splitIntoSentences(text)
           visibleStart == Max(0, Len(sentences) - 2)
       IN IF Len(sentences) = 0 THEN text
          ELSE Concat([k \in 1..Len(sentences) |->
                 IF k - 1 < visibleStart THEN MaskNonSpace(sentences[k])
                 ELSE IF Len(sentences) <= 3 /\ k - 1 = visibleStart
                   THEN maskLeadingPortion(sentences[k])
                 ELSE sentences[k]])

\* computeMaskedDecoded(text)
computeMaskedDecoded(text) ==
  IF text = << >> THEN << >>
  ELSE LET sentences == splitIntoSentences(text)
           visibleStart == Max(0, Len(sentences) - 3)
       IN IF Len(sentences) = 0 THEN text
          ELSE Concat([k \in 1..Len(sentences) |->
                 IF k - 1 < visibleStart THEN MaskNonSpace(sentences[k])
                 ELSE IF Len(sentences) <= 3 /\ k - 1 = visibleStart
                   THEN maskLeadingPortion(sentences[k])
                 ELSE sentences[k]])

\* ------------------------------------------------------------------ state
VARIABLES
  message,            \* data(): the text of the input field in decode mode
  realMessage,        \* data(): the plaintext being composed
  displayMessage,     \* data(): the masked projection shown while composing
  passkey,            \* data(): the passphrase field
  mode,               \* data(): "encode" or "decode"
  status,             \* data(): [message, isError]
  result,             \* data()
  displayedResult,    \* data()
  fullDecodedText,    \* data()
  isAnimating,        \* data()
  animationTimer,     \* data(): 0 for null, else the id of a reveal timer
  maskTimer,          \* data(): 0 for null, else the id of an idle-mask timer
  lastSelectionStart, \* data()
  lastSelectionEnd,   \* data()
  cryptoOk,           \* the host: crypto.subtle exists
  revealTimers,       \* the host: the scheduled reveal callbacks, each with its closure
  maskTimers,         \* the host: the ids of the scheduled idle-mask callbacks
  awaiting,           \* the handleAction calls suspended at their await, oldest first
  codec,              \* the last direct call of the codec and where its input came from
  idle,               \* the host: the ticks elapsed since the idle-mask timer was armed
  edit                \* the browser: the edit event of encode mode handled in the last step

appVars == << message, realMessage, displayMessage, passkey, mode, status, result,
              displayedResult, fullDecodedText, isAnimating, animationTimer, maskTimer,
              lastSelectionStart, lastSelectionEnd, revealTimers, maskTimers, awaiting,
              idle, edit >>

vars == << message, realMessage, displayMessage, passkey, mode, status, result,
           displayedResult, fullDecodedText, isAnimating, animationTimer, maskTimer,
           lastSelectionStart, lastSelectionEnd, cryptoOk, revealTimers, maskTimers,
           awaiting, codec, idle, edit >>

\* ----------------------------------------------------------------- inputs
\* passphrases: "k" and "j"
PassK == << 107 >>
PassJ == << 106 >>
Passkeys == {Empty, PassK}

\* the values getRandomValues may return
Salts == {Repeat(1, SaltLen)}
Ivs == {Repeat(3, IvLen)}

\* "ab."
TextAB == << 97, 98, 46 >>

BlobAB == encodeMessage(TextAB, PassK, TRUE, Repeat(1, SaltLen), Repeat(3, IvLen)).value

\* the payload bytes with the byte at 1-based position pos increased by delta
TamperBytes(bytes, pos, delta) == [bytes EXCEPT ![pos] = (@ + delta) % 256]

\* blob with one payload byte changed
TamperBlob(blob, pos, delta) == toBase64(TamperBytes(fromBase64(blob).bytes, pos, delta))

\* blob cut down to its first n payload bytes
TruncateBlob(blob, n) == toBase64(Slice(fromBase64(blob).bytes, 0, n))

\* "!!" is not base64
NotBase64 == << 33, 33 >>

\* what a user may put into the field in decode mode
DecodeInputs ==
  { BlobAB, TamperBlob(BlobAB, HeaderLen + 1, 1), TruncateBlob(BlobAB, HeaderLen) }

\* ------------------------------------------------------------- operations
NoStatus == [message |-> "Awaiting input. Choose encode or decode to begin.", isError |-> FALSE]

\* setStatus(message, isError = false)
Status(m, e) == [message |-> m, isError |-> e]

\* no codec call yet
NoOutcome == [ok |-> FALSE, value |-> Empty, error |-> "", steps |-> {}, cause |-> "none"]
NoCall == [op |-> "none", kind |-> "none", blob |-> Empty, plain |-> Empty, pass |-> Empty,
           pos |-> 0, arg |-> Empty, out |-> NoOutcome]

\* no edit event yet
NoEdit == [op |-> "none", start |-> 0, end |-> 0, text |-> Empty, before |-> Empty,
           shown |-> Empty, hasData |-> FALSE]

\* data(), then hydrate() in mounted(): mode and passkey may come from localStorage
Init ==
  /\ message = Empty
  /\ realMessage = Empty
  /\ displayMessage = Empty
  /\ passkey \in Passkeys
  /\ mode \in {"encode", "decode"}
  /\ status = NoStatus
  /\ result = Empty
  /\ displayedResult = Empty
  /\ fullDecodedText = Empty
  /\ isAnimating = FALSE
  /\ animationTimer = 0
  /\ maskTimer = 0
  /\ lastSelectionStart = 0
  /\ lastSelectionEnd = 0
  /\ cryptoOk \in BOOLEAN
  /\ revealTimers = {}
  /\ maskTimers = {}
  /\ awaiting = << >>
  /\ codec = NoCall
  /\ idle = 0
  /\ edit = NoEdit

\* no edit event, but the last step (a mode switch or a clear) found an
\* idle-mask timer pending
TimerCancelled == [NoEdit EXCEPT !.op = "timerCancelled"]

\* clearTimeout(handle) on the reveal timers: the callback with that id is
\* unscheduled; a callback that stays scheduled although stopAnimation ran is
\* marked stopped
ClearReveal(timers, handle) ==
  {[t EXCEPT !.stopped = TRUE] : t \in {u \in timers : u.id # handle}}

\* stopAnimation(): the reveal timers it leaves scheduled
stopAnimation(timers, handle) == ClearReveal(timers, handle)

\* clearMaskTimer that clears nothing
clearMaskTimerKept(timers, handle) == timers

\* clearMaskTimer(): the idle-mask timers it leaves scheduled
clearMaskTimer(timers, handle) == IF handle # 0 THEN timers \ {handle} ELSE timers

\* setTimeout: the id of the new timer, the least one not scheduled
NewId(used) == CHOOSE i \in 1..(Cardinality(used) + 1) : i \notin used /\ \A k \in 1..(i - 1) : k \in used

\* every suspended handleAction is marked as followed by a later operation
Supersede(conts) == [i \in 1..Len(conts) |-> [conts[i] EXCEPT !.superseded = TRUE]]

\* reveal(), the closure of animateDecode(text), called with the closure's
\* index, the timers scheduled besides the one that fired, and whether the
\* run had been stopped: what it writes
reveal(text, index, timers, stopped) ==
  LET idx == index + 1
      partial == Slice(text, 0, idx)
      id == NewId({t.id : t \in timers})
  IN IF idx < Len(text)
     THEN [displayedResult |-> computeMaskedDecoded(partial),
           animationTimer |-> id,
           timers |-> timers \cup {[id |-> id, text |-> text, index |-> idx, stopped |-> stopped]},
           done |-> FALSE]
     ELSE [displayedResult |-> computeMaskedDecoded(text),
           animationTimer |-> 0,
           timers |-> timers,
           done |-> TRUE]

\* resetMaskTimer that arms no timer
ArmedMaskTimerNever(real, timers) == 0

\* resetMaskTimer() after clearMaskTimer(), for the new realMessage: the id of
\* the timer it arms, 0 when realMessage is empty
ArmedMaskTimer(real, timers) == IF real = Empty THEN 0 ELSE NewId(timers)

\* setMode(next); a call with the current mode returns at once
setMode(next) ==
  /\ mode # next
  /\ LET cleared == clearMaskTimer(maskTimers, maskTimer)
         real == IF next = "decode" THEN realMessage
                 ELSE IF message # Empty THEN message ELSE realMessage
         armed == IF next = "decode" THEN 0 ELSE ArmedMaskTimer(real, cleared)
     IN /\ message' = IF next = "decode" /\ realMessage # Empty THEN realMessage ELSE message
        /\ realMessage' = real
        /\ displayMessage' = IF next = "decode" THEN realMessage
                             ELSE computeDisplayMessage(real, FALSE)
        /\ maskTimer' = armed
        /\ maskTimers' = IF armed = 0 THEN cleared ELSE cleared \cup {armed}
  /\ mode' = next
  /\ status' = Status(IF next = "encode" THEN "Encoding mode selected."
                      ELSE "Decoding mode selected.", FALSE)
  /\ revealTimers' = stopAnimation(revealTimers, animationTimer)
  /\ animationTimer' = 0
  /\ isAnimating' = FALSE
  /\ displayedResult' = Empty
  /\ result' = Empty
  /\ fullDecodedText' = Empty
  /\ awaiting' = Supersede(awaiting)
  /\ idle' = 0
  /\ edit' = IF maskTimer # 0 THEN TimerCancelled ELSE NoEdit
  /\ UNCHANGED << passkey, lastSelectionStart, lastSelectionEnd, cryptoOk, codec >>

\* the catch block of handleAction
CatchError(err) ==
  /\ result' = Empty
  /\ displayedResult' = Empty
  /\ fullDecodedText' = Empty
  /\ status' = Status(err, TRUE)

\* handleAction() up to its await: stopAnimation, the two guards, the codec
\* call. A call whose codec promise is already rejected falls into the catch
\* block in the same task; otherwise the call is suspended.
handleAction(salt, iv) ==
  LET timers == stopAnimation(revealTimers, animationTimer)
      inputText == IF mode = "encode" THEN realMessage ELSE message
      outcome == IF mode = "encode"
                 THEN encodeMessage(realMessage, passkey, cryptoOk, salt, iv)
                 ELSE decodeMessage(message, passkey, cryptoOk)
  IN /\ revealTimers' = timers
     /\ animationTimer' = 0
     /\ isAnimating' = FALSE
     /\ UNCHANGED << message, realMessage, displayMessage, passkey, mode, maskTimer,
                     maskTimers, lastSelectionStart, lastSelectionEnd, cryptoOk, codec,
                     idle >>
     /\ edit' = NoEdit
     /\ IF passkey = Empty
        THEN /\ status' = Status("Passkey is required before processing.", TRUE)
             /\ awaiting' = Supersede(awaiting)
             /\ UNCHANGED << result, displayedResult, fullDecodedText >>
        ELSE IF inputText = Empty \/ IsBlank(inputText)
        THEN /\ status' = Status("Please enter a message to process.", TRUE)
             /\ awaiting' = Supersede(awaiting)
             /\ UNCHANGED << result, displayedResult, fullDecodedText >>
        ELSE IF ~Suspends(outcome)
        THEN /\ CatchError(outcome.error)
             /\ awaiting' = Supersede(awaiting)
        ELSE /\ Len(awaiting) < MaxPending
             /\ Len(awaiting) + Cardinality(timers) < MaxTimers
             /\ awaiting' = Append(Supersede(awaiting),
                                   [kind |-> mode, outcome |-> outcome, superseded |-> FALSE])
             /\ UNCHANGED << status, result, displayedResult, fullDecodedText >>

\* handleAction() from its await on: the i-th suspended call resumes
resumeAction(i) ==
  LET c == awaiting[i]
      started == reveal(c.outcome.value, 0, revealTimers, FALSE)
  IN /\ awaiting' = SubSeq(awaiting, 1, i - 1) \o SubSeq(awaiting, i + 1, Len(awaiting))
     /\ UNCHANGED << message, realMessage, displayMessage, passkey, mode, maskTimer,
                     maskTimers, lastSelectionStart, lastSelectionEnd, cryptoOk, codec,
                     idle >>
     /\ edit' = NoEdit
     /\ IF ~c.outcome.ok
        THEN /\ CatchError(c.outcome.error)
             /\ UNCHANGED << isAnimating, animationTimer, revealTimers >>
        ELSE IF c.kind = "encode"
        THEN /\ result' = c.outcome.value
             /\ displayedResult' = c.outcome.value
             /\ fullDecodedText' = Empty
             /\ status' = Status("Message encoded successfully.", FALSE)
             /\ UNCHANGED << isAnimating, animationTimer, revealTimers >>
        ELSE /\ result' = c.outcome.value
             /\ fullDecodedText' = c.outcome.value
             \* animateDecode(decoded): isAnimating, then the first reveal()
             /\ displayedResult' = started.displayedResult
             /\ animationTimer' = started.animationTimer
             /\ revealTimers' = started.timers
             /\ isAnimating' = ~started.done
             /\ status' = IF started.done THEN Status("Message decoded successfully.", FALSE)
                          ELSE Status("Decoding with animated reveal...", FALSE)

\* a scheduled reveal() callback fires
revealStep(t) ==
  LET next == reveal(t.text, t.index, revealTimers \ {t}, t.stopped)
  IN /\ displayedResult' = next.displayedResult
     /\ animationTimer' = next.animationTimer
     /\ revealTimers' = next.timers
     /\ isAnimating' = IF next.done THEN FALSE ELSE isAnimating
     /\ status' = IF next.done THEN Status("Message decoded successfully.", FALSE) ELSE status
     /\ UNCHANGED << message, realMessage, displayMessage, passkey, mode, result,
                     fullDecodedText, maskTimer, maskTimers, lastSelectionStart,
                     lastSelectionEnd, cryptoOk, awaiting, codec, idle >>
     /\ edit' = NoEdit

\* clearAll()
clearAll ==
  /\ revealTimers' = stopAnimation(revealTimers, animationTimer)
  /\ animationTimer' = 0
  /\ isAnimating' = FALSE
  /\ maskTimers' = clearMaskTimer(maskTimers, maskTimer)
  /\ maskTimer' = 0
  /\ message' = Empty
  /\ realMessage' = Empty
  /\ displayMessage' = Empty
  /\ lastSelectionStart' = 0
  /\ lastSelectionEnd' = 0
  /\ result' = Empty
  /\ displayedResult' = Empty
  /\ fullDecodedText' = Empty
  /\ status' = Status("Cleared. Ready for a new message.", FALSE)
  /\ awaiting' = Supersede(awaiting)
  /\ idle' = 0
  /\ edit' = IF maskTimer # 0 THEN TimerCancelled ELSE NoEdit
  /\ UNCHANGED << passkey, mode, cryptoOk, codec >>

\* the delay of the idle-mask timer (5000 ms), in ticks
MaskDelay == 2

\* time passes while the idle-mask timer is pending
Tick ==
  /\ maskTimer # 0
  /\ idle < MaskDelay
  /\ idle' = idle + 1
  /\ UNCHANGED << message, realMessage, displayMessage, passkey, mode, status, result,
                  displayedResult, fullDecodedText, isAnimating, animationTimer, maskTimer,
                  lastSelectionStart, lastSelectionEnd, cryptoOk, revealTimers, maskTimers,
                  awaiting, codec >>
  /\ edit' = NoEdit

\* the idle-mask callback armed by resetMaskTimer fires, its delay over
maskTimeout(id) ==
  /\ idle = MaskDelay
  /\ idle' = 0
  /\ displayMessage' = computeDisplayMessage(realMessage, TRUE)
  /\ maskTimer' = 0
  /\ maskTimers' = maskTimers \ {id}
  /\ UNCHANGED << message, realMessage, passkey, mode, status, result, displayedResult,
                  fullDecodedText, isAnimating, animationTimer, lastSelectionStart,
                  lastSelectionEnd, cryptoOk, revealTimers, awaiting, codec >>
  /\ edit' = NoEdit

\* event.inputType.startsWith('delete')
IsDelete(inputType) ==
  inputType \in {"deleteContentBackward", "deleteContentForward", "deleteByCut",
                 "deleteWordBackward", "deleteWordForward"}

\* event.data: null, or a string
NoData == [present |-> FALSE, text |-> Empty]
Data(text) == [present |-> TRUE, text |-> text]

\* NextReal that takes the inserted text from the start of the field, and
\* from the field also when the event carries data
NextRealFromFieldStart(value, inputType, data) ==
  LET start == lastSelectionStart
      end == lastSelectionEnd
      insertedLength == Max(0, Len(value) - (Len(realMessage) - (end - start)))
  IN Slice(realMessage, 0, start) \o Slice(value, 0, insertedLength)
       \o SliceFrom(realMessage, end)

\* the realMessage handleMessageInput computes in encode mode
NextReal(value, inputType, data) ==
  LET start == lastSelectionStart
      end == lastSelectionEnd
  IN IF IsDelete(inputType)
     THEN LET deleteStart == IF start = end /\ inputType = "deleteContentBackward" /\ start > 0
                             THEN start - 1 ELSE start
              deleteEnd == IF start = end
                              /\ ~(inputType = "deleteContentBackward" /\ start > 0)
                              /\ inputType = "deleteContentForward" /\ end < Len(realMessage)
                           THEN end + 1 ELSE end
          IN Slice(realMessage, 0, deleteStart) \o SliceFrom(realMessage, deleteEnd)
     ELSE LET baseLength == Len(realMessage) - (end - start)
              insertedLength == Max(0, Len(value) - baseLength)
              insertedText == IF data.present THEN data.text
                              ELSE Slice(value, start, start + insertedLength)
          IN Slice(realMessage, 0, start) \o insertedText \o SliceFrom(realMessage, end)

\* handleMessageInput(event): value is event.target.value, selStart and selEnd
\* the selection of the field after the edit, which recordSelection stores
handleMessageInput(value, inputType, data, selStart, selEnd) ==
  /\ IF mode = "encode"
     THEN LET real == NextReal(value, inputType, data)
              cleared == clearMaskTimer(maskTimers, maskTimer)
              armed == ArmedMaskTimer(real, cleared)
          IN /\ realMessage' = real
             /\ displayMessage' = computeDisplayMessage(real, FALSE)
             /\ maskTimer' = armed
             /\ maskTimers' = IF armed = 0 THEN cleared ELSE cleared \cup {armed}
             /\ idle' = 0
             /\ UNCHANGED message
     ELSE /\ message' = value
          /\ UNCHANGED << realMessage, displayMessage, maskTimer, maskTimers, idle >>
  /\ lastSelectionStart' = selStart
  /\ lastSelectionEnd' = selEnd
  /\ UNCHANGED << passkey, mode, status, result, displayedResult, fullDecodedText,
                  isAnimating, animationTimer, cryptoOk, revealTimers, awaiting, codec >>

\* the passphrase field (v-model) is edited
setPasskey(p) ==
  /\ passkey # p
  /\ passkey' = p
  /\ UNCHANGED << message, realMessage, displayMessage, mode, status, result,
                  displayedResult, fullDecodedText, isAnimating, animationTimer, maskTimer,
                  lastSelectionStart, lastSelectionEnd, cryptoOk, revealTimers, maskTimers,
                  awaiting, codec, idle >>
  /\ edit' = NoEdit

\* ------------------------------------------------------ the user's events
\* In encode mode the field shows displayMessage, and the selection the
\* browser applies an edit to is the one recordSelection stored last.

\* the characters typed in encode mode: "a" and the space
TypedChars == {97, 32}

\* the texts pasted in encode mode: " a"
PastedTexts == {<< 32, 97 >>}

\* the delete events a browser sends
DeleteKinds == {"deleteContentBackward", "deleteContentForward", "deleteWordBackward",
                "deleteByCut"}

\* recordSelection(event) on its own: the caret is moved or a span selected
recordSelection(selStart, selEnd) ==
  /\ mode = "encode"
  /\ selStart <= selEnd
  /\ selEnd <= Len(displayMessage)
  /\ << selStart, selEnd >> # << lastSelectionStart, lastSelectionEnd >>
  /\ lastSelectionStart' = selStart
  /\ lastSelectionEnd' = selEnd
  /\ edit' = NoEdit
  /\ UNCHANGED << message, realMessage, displayMessage, passkey, mode, status, result,
                  displayedResult, fullDecodedText, isAnimating, animationTimer, maskTimer,
                  cryptoOk, revealTimers, maskTimers, awaiting, codec, idle >>

\* the event of an edit at the recorded selection
EditEvent(inputType, text, hasData) ==
  [op |-> inputType, start |-> lastSelectionStart, end |-> lastSelectionEnd,
   text |-> text, before |-> realMessage, shown |-> displayMessage, hasData |-> hasData]

\* the field after the browser has put text in place of the selection
FieldAfterInsert(text) ==
  Slice(displayMessage, 0, lastSelectionStart) \o text
    \o SliceFrom(displayMessage, lastSelectionEnd)

\* a character is typed at the recorded selection of the masked field
TypeChar(c) ==
  /\ mode = "encode"
  /\ Len(realMessage) - (lastSelectionEnd - lastSelectionStart) < MaxMsgLen
  /\ handleMessageInput(FieldAfterInsert(<< c >>), "insertText", Data(<< c >>),
                        lastSelectionStart + 1, lastSelectionStart + 1)
  /\ edit' = EditEvent("insertText", << c >>, TRUE)

\* a text is pasted over the recorded selection; the event carries no data
PasteText(text) ==
  /\ mode = "encode"
  /\ Len(realMessage) - (lastSelectionEnd - lastSelectionStart) + Len(text) <= MaxMsgLen
  /\ handleMessageInput(FieldAfterInsert(text), "insertFromPaste", NoData,
                        lastSelectionStart + Len(text), lastSelectionStart + Len(text))
  /\ edit' = EditEvent("insertFromPaste", text, FALSE)

\* the offset at which the word before offset pos starts: back over
\* whitespace, then back over the word
WordStart(text, pos) ==
  LET wordEnd == IF \E k \in 1..pos : ~IsSpace(text[k])
                 THEN CHOOSE k \in 1..pos :
                        ~IsSpace(text[k]) /\ \A j \in (k + 1)..pos : IsSpace(text[j])
                 ELSE 0
  IN IF \E k \in 1..wordEnd : IsSpace(text[k])
     THEN CHOOSE k \in 1..wordEnd : IsSpace(text[k]) /\ \A j \in (k + 1)..wordEnd : ~IsSpace(text[j])
     ELSE 0

\* the span [from, to) of the field a delete event of this kind removes; an
\* empty span means that the browser sends no event
DeletedSpan(kind) ==
  LET start == lastSelectionStart
      end == lastSelectionEnd
  IN IF start < end THEN [from |-> start, to |-> end]
     ELSE IF kind = "deleteContentBackward" /\ start > 0 THEN [from |-> start - 1, to |-> start]
     ELSE IF kind = "deleteContentForward" /\ end < Len(displayMessage)
       THEN [from |-> start, to |-> start + 1]
     ELSE IF kind = "deleteWordBackward"
       THEN [from |-> WordStart(displayMessage, start), to |-> start]
     ELSE [from |-> start, to |-> start]

\* Backspace, Delete, Ctrl+Backspace or a cut in encode mode
DeleteEdit(kind) ==
  LET span == DeletedSpan(kind)
  IN /\ mode = "encode"
     /\ Len(realMessage) <= MaxMsgLen
     /\ lastSelectionEnd <= Len(displayMessage)
     /\ span.from < span.to
     /\ handleMessageInput(Slice(displayMessage, 0, span.from) \o SliceFrom(displayMessage, span.to),
                           kind, NoData, span.from, span.from)
     /\ edit' = EditEvent(kind, Empty, FALSE)

\* the field is filled in decode mode (a paste over its whole content)
PasteBlob(v) ==
  /\ mode = "decode"
  /\ message # v
  /\ handleMessageInput(v, "insertFromPaste", NoData, Len(v), Len(v))
  /\ edit' = NoEdit

Next ==
  \/ \E next \in {"encode", "decode"} : setMode(next)
  \/ \E salt \in Salts, iv \in Ivs : handleAction(salt, iv)
  \/ \E i \in 1..Len(awaiting) : resumeAction(i)
  \/ \E t \in revealTimers : revealStep(t)
  \/ \E id \in maskTimers : maskTimeout(id)
  \/ Tick
  \/ clearAll
  \/ \E v \in DecodeInputs : PasteBlob(v)
  \/ \E p \in Passkeys : setPasskey(p)

Spec == Init /\ [][Next]_vars

\* ------------------------------------------------------- composing a text
\* The field in encode mode: edits, caret moves, the idle timer, mode
\* switches and clears.
NextEdit ==
  \/ \E s \in 0..MaxMsgLen, e \in 0..MaxMsgLen : recordSelection(s, e)
  \/ \E c \in TypedChars : TypeChar(c)
  \/ \E text \in PastedTexts : PasteText(text)
  \/ \E kind \in DeleteKinds : DeleteEdit(kind)
  \/ Tick
  \/ \E id \in maskTimers : maskTimeout(id)
  \/ \E next \in {"encode", "decode"} : setMode(next)
  \/ clearAll

\* the passphrase and the host's crypto play no part in composing
InitEdit == Init /\ cryptoOk /\ passkey = Empty

SpecEdit == InitEdit /\ [][NextEdit]_vars

\* typing at the caret, the idle timer, mode switches and clears
NextIdle ==
  \/ \E c \in TypedChars : TypeChar(c)
  \/ Tick
  \/ \E id \in maskTimers : maskTimeout(id)
  \/ \E next \in {"encode", "decode"} : setMode(next)
  \/ clearAll

\* the pending setTimeout of resetMaskTimer stops being pending once its delay
\* is over: its callback runs, or a clearTimeout takes it away
TimerDue == maskTimer # 0 /\ idle = MaskDelay /\ maskTimer' = 0 /\ idle' = 0

\* time does not stop, and a timer that is due does not stay pending for ever
SpecEditFair ==
  /\ InitEdit
  /\ [][NextIdle]_vars
  /\ WF_vars(Tick)
  /\ WF_<< maskTimer, idle >>(TimerDue)

\* ------------------------------------------------- revealing a decoded text
\* The component decoding one blob: the blob is pasted into the empty field,
\* the button is pressed while nothing is revealed or awaited, and the reveal
\* runs to its end. The decoded texts are built from a few pieces, so that
\* sentences end with and without whitespace, whitespace runs have several
\* characters and terminators stand inside words.
MaxPieces == 5

\* "a. ", ".", " ", "b"
RevealPieces == {<< 97, 46, 32 >>, << 46 >>, << 32 >>, << 98 >>}

RECURSIVE PieceTexts(_)
\* the texts made of exactly n pieces
PieceTexts(n) ==
  IF n = 0 THEN {<< >>}
  ELSE {p \o t : p \in RevealPieces, t \in PieceTexts(n - 1)}

\* "One. Two. Three. Four."
TextFour == << 79, 110, 101, 46, 32, 84, 119, 111, 46, 32, 84, 104, 114, 101, 101, 46, 32,
               70, 111, 117, 114, 46 >>

\* "a!<tab>b?<newline>c. d.e"
TextMixed == << 97, 33, 9, 98, 63, 10, 99, 46, 32, 100, 46, 101 >>

\* the plaintexts somebody encoded under "k"
RevealTexts == UNION {PieceTexts(n) : n \in 1..MaxPieces} \cup {TextFour, TextMixed}

\* the blob encodeMessage made of text under "k"
EncodedText(text) ==
  encodeMessage(text, PassK, TRUE, Repeat(1, SaltLen), Repeat(3, IvLen)).value

NextReveal ==
  \/ message = Empty /\ \E text \in RevealTexts : PasteBlob(EncodedText(text))
  \/ /\ fullDecodedText = Empty /\ awaiting = << >> /\ revealTimers = {}
     /\ \E salt \in Salts, iv \in Ivs : handleAction(salt, iv)
  \/ \E i \in 1..Len(awaiting) : resumeAction(i)
  \/ \E t \in revealTimers : revealStep(t)

InitReveal == Init /\ cryptoOk /\ passkey = PassK /\ mode = "decode"

SpecReveal == InitReveal /\ [][NextReveal]_vars

\* --------------------------------------- the component of unnamed/part_000
\* The older variant of the component. It differs from v3 in the reveal: it
\* has no fullDecodedText (the variable stays empty here), it shows the
\* prefix unmasked, it reveals only when animationEnabled is set, and the
\* step that ends the reveal clears isAnimating but leaves animationTimer as
\* it is. Its setMode, handleAction up to the await, stopAnimation and
\* clearAll are those of v3 but for fullDecodedText.

\* reveal(), the closure of animateDecode(text) in part_000, called with the
\* closure's index, the timers scheduled besides the one that fired, whether
\* the run had been stopped, and this.animationTimer: what it writes
revealPart000(text, index, timers, stopped, handle) ==
  LET idx == index + 1
      id == NewId({t.id : t \in timers})
  IN IF idx <= Len(text)
     THEN [displayedResult |-> Slice(text, 0, index),
           animationTimer |-> id,
           timers |-> timers \cup {[id |-> id, text |-> text, index |-> idx, stopped |-> stopped]},
           done |-> FALSE]
     ELSE [displayedResult |-> Slice(text, 0, index),
           animationTimer |-> handle,
           timers |-> timers,
           done |-> TRUE]

\* handleAction() of part_000 from its await on: the i-th suspended call
\* resumes, with this.animationEnabled as it is then
resumeActionPart000(i, animationEnabled) ==
  LET c == awaiting[i]
      started == revealPart000(c.outcome.value, 0, revealTimers, FALSE, animationTimer)
  IN /\ awaiting' = SubSeq(awaiting, 1, i - 1) \o SubSeq(awaiting, i + 1, Len(awaiting))
     /\ UNCHANGED << message, realMessage, displayMessage, passkey, mode, maskTimer,
                     maskTimers, lastSelectionStart, lastSelectionEnd, cryptoOk, codec,
                     idle >>
     /\ edit' = NoEdit
     /\ IF ~c.outcome.ok
        THEN /\ CatchError(c.outcome.error)
             /\ UNCHANGED << isAnimating, animationTimer, revealTimers >>
        ELSE IF c.kind = "encode"
        THEN /\ result' = c.outcome.value
             /\ displayedResult' = c.outcome.value
             /\ status' = Status("Message encoded successfully.", FALSE)
             /\ UNCHANGED << fullDecodedText, isAnimating, animationTimer, revealTimers >>
        ELSE IF animationEnabled
        THEN /\ result' = c.outcome.value
             \* animateDecode(decoded): isAnimating, then the first reveal()
             /\ displayedResult' = started.displayedResult
             /\ animationTimer' = started.animationTimer
             /\ revealTimers' = started.timers
             /\ isAnimating' = ~started.done
             /\ status' = IF started.done THEN Status("Message decoded successfully.", FALSE)
                          ELSE Status("Decoding with animated reveal...", FALSE)
             /\ UNCHANGED fullDecodedText
        ELSE /\ result' = c.outcome.value
             /\ displayedResult' = c.outcome.value
             /\ status' = Status("Message decoded successfully.", FALSE)
             /\ UNCHANGED << fullDecodedText, isAnimating, animationTimer, revealTimers >>

\* a scheduled reveal() callback of part_000 fires
revealStepPart000(t) ==
  LET next == revealPart000(t.text, t.index, revealTimers \ {t}, t.stopped, animationTimer)
  IN /\ displayedResult' = next.displayedResult
     /\ animationTimer' = next.animationTimer
     /\ revealTimers' = next.timers
     /\ isAnimating' = IF next.done THEN FALSE ELSE isAnimating
     /\ status' = IF next.done THEN Status("Message decoded successfully.", FALSE) ELSE status
     /\ UNCHANGED << message, realMessage, displayMessage, passkey, mode, result,
                     fullDecodedText, maskTimer, maskTimers, lastSelectionStart,
                     lastSelectionEnd, cryptoOk, awaiting, codec, idle >>
     /\ edit' = NoEdit

\* the blobs pasted into part_000: those of Spec and those of the reveal texts
Part000Inputs == DecodeInputs \cup {EncodedText(text) : text \in RevealTexts}

\* one blob pasted, decoded and revealed by part_000
NextPart000 ==
  \/ message = Empty /\ \E v \in Part000Inputs : PasteBlob(v)
  \/ /\ result = Empty /\ awaiting = << >> /\ revealTimers = {}
     /\ \E salt \in Salts, iv \in Ivs : handleAction(salt, iv)
  \/ \E i \in 1..Len(awaiting), animationEnabled \in BOOLEAN :
       resumeActionPart000(i, animationEnabled)
  \/ \E t \in revealTimers : revealStepPart000(t)

SpecPart000 == InitReveal /\ [][NextPart000]_vars

\* ------------------------------------------------- the codec called directly
\* The codec's two entry points as a caller other than the component may use
\* them. codec holds the input at hand (blob), where it came from (kind, with
\* the plaintext and passphrase it was encrypted from and the position of
\* the change), and the last call (op, its passphrase arg, its outcome out).
\* "ab. c", whose prefixes are the plaintexts, besides "" and "\u00e9"
TextLong == << 97, 98, 46, 32, 99 >>

\* strings whose UTF-16 form is special: a byte order mark before "a", a
\* surrogate pair (U+1F600), a high surrogate on its own
TextBom == << 65279, 97 >>
TextPair == << 55357, 56832 >>
TextLone == << 55357 >>

CodecPlains ==
  {Empty, << 233 >>, TextBom, TextPair, TextLone}
  \cup {Slice(TextLong, 0, n) : n \in 1..MaxPlainLen}
CodecPasses == {Empty, PassK, PassJ}
TamperDeltas == {1, 255}

\* inputs that atob rejects: "!!", "A", and a blob with '*' for its first character
Garbled == {NotBase64, << 65 >>, [BlobAB EXCEPT ![1] = 42]}

\* inputs that do not come from a call of encodeMessage in this run
Supplied ==
  {[kind |-> "valid", blob |-> BlobAB, plain |-> TextAB, pass |-> PassK]}
  \cup {[kind |-> "garbled", blob |-> g, plain |-> Empty, pass |-> Empty] : g \in Garbled}

PayloadLen(blob) == Len(fromBase64(blob).bytes)

CodecEncode(m, p, salt, iv) ==
  /\ codec.op = "none"
  /\ LET out == encodeMessage(m, p, cryptoOk, salt, iv)
     IN codec' = [op |-> "encode", kind |-> IF out.ok THEN "valid" ELSE "none",
                  blob |-> out.value, plain |-> m, pass |-> p, pos |-> 0, arg |-> p,
                  out |-> out]
  /\ UNCHANGED << appVars, cryptoOk >>

CodecSupply(r) ==
  /\ codec.op = "none"
  /\ codec' = [op |-> "supply", kind |-> r.kind, blob |-> r.blob, plain |-> r.plain,
               pass |-> r.pass, pos |-> 0, arg |-> Empty, out |-> NoOutcome]
  /\ UNCHANGED << appVars, cryptoOk >>

\* one byte of the payload of a valid blob is changed
CodecTamper(pos, delta) ==
  /\ codec.kind = "valid"
  /\ codec.op \in {"encode", "supply"}
  /\ pos \in 1..PayloadLen(codec.blob)
  /\ codec' = [codec EXCEPT !.op = "tamper", !.kind = "tampered",
                            !.blob = TamperBlob(codec.blob, pos, delta), !.pos = pos,
                            !.arg = Empty, !.out = NoOutcome]
  /\ UNCHANGED << appVars, cryptoOk >>

\* the payload of a valid blob is cut to its first n bytes
CodecTruncate(n) ==
  /\ codec.kind = "valid"
  /\ codec.op \in {"encode", "supply"}
  /\ n \in 0..(PayloadLen(codec.blob) - 1)
  /\ codec' = [codec EXCEPT !.op = "truncate", !.kind = "short",
                            !.blob = TruncateBlob(codec.blob, n), !.pos = n,
                            !.arg = Empty, !.out = NoOutcome]
  /\ UNCHANGED << appVars, cryptoOk >>

CodecDecode(p) ==
  /\ codec.op \in {"encode", "supply", "tamper", "truncate"}
  /\ codec' = [codec EXCEPT !.op = "decode", !.arg = p,
                            !.out = decodeMessage(codec.blob, p, cryptoOk)]
  /\ UNCHANGED << appVars, cryptoOk >>

NextCodec ==
  \/ \E m \in CodecPlains, p \in CodecPasses, salt \in Salts, iv \in Ivs :
       CodecEncode(m, p, salt, iv)
  \/ \E r \in Supplied : CodecSupply(r)
  \/ \E pos \in 1..(HeaderLen + TagLen + MaxPlainLen), delta \in TamperDeltas : CodecTamper(pos, delta)
  \/ \E n \in 0..(HeaderLen + TagLen + MaxPlainLen) : CodecTruncate(n)
  \/ \E p \in CodecPasses : CodecDecode(p)

SpecCodec == Init /\ [][NextCodec]_vars

\* ------------------------------------------------------------------ claims

\* C1: in every reachable state at most one reveal-step timer callback is
\* pending: a new reveal never starts while a step callback of an earlier
\* reveal is still scheduled.
C1_AtMostOneRevealTimer == Cardinality(revealTimers) <= 1

\* C2: once stopAnimation has run while a reveal was in progress, no reveal
\* step of a run started before that call executes, and the call leaves
\* animationTimer null.
C2_StoppedRunNeverSteps ==
  [][/\ \A t \in revealTimers : revealStep(t) => ~t.stopped
     /\ ((\E next \in {"encode", "decode"} : setMode(next)) \/ clearAll
          \/ \E salt \in Salts, iv \in Ivs : handleAction(salt, iv)) => animationTimer' = 0]_vars

\* C3: every step of a reveal that no stopAnimation has cancelled shows the
\* prefix one longer than the step before, and the step that shows the full text leaves the reveal Complete:
\* isAnimating false, no step timer pending, the success status.
C3_RevealRunsToComplete ==
  [][\A t \in revealTimers : (revealStep(t) /\ ~t.stopped) =>
       /\ displayedResult' = computeMaskedDecoded(Slice(t.text, 0, t.index + 1))
       /\ t.index + 1 = Len(t.text) =>
            /\ ~isAnimating'
            /\ revealTimers' = {}
            /\ animationTimer' = 0
            /\ status' = Status("Message decoded successfully.", FALSE)]_vars

\* C4: a decode action that was followed by setMode, clearAll or a newer
\* handleAction while it awaited decodeMessage writes none of result,
\* fullDecodedText and displayedResult when it resumes and starts no reveal.
C4_SupersededDecodeWritesNothing ==
  [][\A i \in 1..Len(awaiting) :
       (resumeAction(i) /\ awaiting[i].kind = "decode" /\ awaiting[i].superseded) =>
         /\ result' = result
         /\ fullDecodedText' = fullDecodedText
         /\ displayedResult' = displayedResult
         /\ revealTimers' = revealTimers]_vars

\* the renderings of a decoded text: the text and the frames of its reveal
PlaintextViews(text) ==
  {text} \cup {computeMaskedDecoded(Slice(text, 0, k)) : k \in 1..Len(text)}

\* x shows decoded plaintext, whole, partial or masked
HoldsPlaintext(x) == x # Empty /\ x \in PlaintextViews(TextAB)

\* a handleAction call in decode mode ends in failure in this step: at the
\* passkey guard, in the catch block in the same task, or in the catch block
\* after its await
FailingDecodeFinishes ==
  \/ /\ mode = "decode"
     /\ \/ passkey = Empty
        \/ /\ ~IsBlank(message)
           /\ ~Suspends(decodeMessage(message, passkey, cryptoOk))
     /\ \E salt \in Salts, iv \in Ivs : handleAction(salt, iv)
  \/ \E i \in 1..Len(awaiting) :
       awaiting[i].kind = "decode" /\ ~awaiting[i].outcome.ok /\ resumeAction(i)

\* C5: when a decode attempt has failed and its handleAction has finished,
\* none of result, displayedResult and fullDecodedText holds plaintext and no
\* reveal timer is pending, whatever was decoded or displayed before.
C5_FailedDecodeLeavesNoPlaintext ==
  [][FailingDecodeFinishes =>
       /\ ~HoldsPlaintext(result')
       /\ ~HoldsPlaintext(displayedResult')
       /\ ~HoldsPlaintext(fullDecodedText')
       /\ revealTimers' = {}]_vars

\* what the caller of a codec call can observe of its failure
AuthFailure(out) == ~out.ok /\ out.error = ErrAuth /\ out.value = Empty

\* C6: for a payload longer than 28 bytes, decodeMessage with a passphrase
\* other than the one used to encrypt fails, and with the same generic
\* error as for a tampered or truncated payload: whatever the cause, the
\* caller sees the one outcome AuthFailure.
C6_GenericAuthFailure ==
  (/\ codec.op = "decode"
   /\ cryptoOk
   /\ codec.arg # Empty
   /\ codec.kind \in {"valid", "tampered", "short"}
   /\ PayloadLen(codec.blob) > HeaderLen
   /\ ~(codec.kind = "valid" /\ codec.arg = codec.pass))
  => AuthFailure(codec.out)

\* a blob of encodeMessage decoded with another passphrase
C6_Witness ==
  /\ codec.op = "decode"
  /\ codec.kind = "valid"
  /\ codec.plain = TextAB
  /\ codec.pass = PassK
  /\ codec.arg = PassJ
  /\ AuthFailure(codec.out)

\* C7: a blob of encodeMessage(m, p) with one byte of its ciphertext and tag
\* (offset 28 on) changed makes decodeMessage(blob', p) fail with the
\* authentication error; no plaintext is returned.
C7_TamperDetected ==
  (/\ codec.op = "decode"
   /\ cryptoOk
   /\ codec.kind = "tampered"
   /\ codec.pos > HeaderLen
   /\ codec.arg = codec.pass)
  => AuthFailure(codec.out)

\* the first ciphertext byte of the blob of "ab." changed, decoded with its passphrase
C7_Witness ==
  /\ codec.op = "decode"
  /\ codec.kind = "tampered"
  /\ codec.pos = HeaderLen + 1
  /\ codec.plain = TextAB
  /\ codec.arg = codec.pass
  /\ AuthFailure(codec.out)

\* the input is base64 of a payload of 28 bytes or fewer
ShortPayload == fromBase64(codec.blob).ok /\ PayloadLen(codec.blob) <= HeaderLen

\* C8 as stated: every base64 input of 28 bytes or fewer fails with
\* 'Invalid cipher payload.' for every passphrase value whatsoever, and
\* without key derivation or decryption.
C8_ShortPayloadAnyPassphrase ==
  (codec.op = "decode" /\ ShortPayload)
  => (~codec.out.ok /\ codec.out.error = ErrPayload
      /\ codec.out.steps \cap {"deriveKey", "decrypt"} = {})

\* C8 amended: every base64 input of 28 bytes or fewer fails without key
\* derivation or decryption; the error is 'Invalid cipher payload.' for
\* every non-empty passphrase where Web Crypto exists, the empty-passphrase
\* error for an empty passphrase, and else the unavailable error.
C8_ShortPayloadRejected ==
  (codec.op = "decode" /\ ShortPayload)
  => (/\ ~codec.out.ok
      /\ codec.out.value = Empty
      /\ codec.out.steps \cap {"deriveKey", "decrypt"} = {}
      /\ codec.out.error = IF codec.arg = Empty THEN ErrEmptyPass
                           ELSE IF ~cryptoOk THEN ErrNoCrypto ELSE ErrPayload)

\* a payload of exactly 28 bytes decoded with a passphrase
C8_Witness ==
  /\ codec.op = "decode"
  /\ codec.kind = "short"
  /\ PayloadLen(codec.blob) = HeaderLen
  /\ codec.arg = PassK
  /\ codec.out.error = ErrPayload

\* C9: with a non-empty passphrase, an input that is not valid base64 fails
\* with the error of a payload of 28 bytes or fewer.
C9_BadBase64IsMalformedPayload ==
  (/\ codec.op = "decode"
   /\ cryptoOk
   /\ codec.arg # Empty
   /\ ~fromBase64(codec.blob).ok)
  => (~codec.out.ok /\ codec.out.error = ErrPayload)

\* C10: encodeMessage and decodeMessage with an empty passphrase fail with
\* the empty-passphrase error before anything else: for every input and
\* with or without Web Crypto, no stage is reached and nothing is produced.
C10_EmptyPassphraseFirst ==
  (codec.op \in {"encode", "decode"} /\ codec.arg = Empty)
  => (/\ ~codec.out.ok
      /\ codec.out.error = ErrEmptyPass
      /\ codec.out.steps = {}
      /\ codec.out.value = Empty)

\* a valid blob decoded with the empty passphrase where Web Crypto is missing
C10_Witness ==
  /\ codec.op = "decode"
  /\ codec.arg = Empty
  /\ ~cryptoOk
  /\ codec.kind = "valid"
  /\ codec.out.error = ErrEmptyPass

\* C11: for every non-empty passphrase p and every string m, the blob of
\* encodeMessage(m, p) is salt(16), nonce(12), ciphertext and tag, is longer
\* than 28 bytes, and decodeMessage(blob, p) returns exactly m.
C11_RoundTrip ==
  (/\ codec.op = "decode"
   /\ cryptoOk
   /\ codec.kind = "valid"
   /\ codec.arg # Empty
   /\ codec.arg = codec.pass)
  => (/\ PayloadLen(codec.blob) > HeaderLen
      /\ Slice(fromBase64(codec.blob).bytes, 0, SaltLen) \in Salts
      /\ Slice(fromBase64(codec.blob).bytes, SaltLen, HeaderLen) \in Ivs
      /\ codec.out.ok
      /\ codec.out.value = codec.plain)

\* the index of the last non-whitespace character of text, 0 if there is none
LastNonSpace(text) ==
  IF \E k \in 1..Len(text) : ~IsSpace(text[k])
  THEN CHOOSE k \in 1..Len(text) : ~IsSpace(text[k]) /\ \A j \in (k + 1)..Len(text) : IsSpace(text[j])
  ELSE 0

\* text with every non-whitespace run but the last in asterisks
MaskAllButLast(text) ==
  [i \in 1..Len(text) |->
    IF IsSpace(text[i]) THEN text[i]
    ELSE IF \A k \in i..LastNonSpace(text) : ~IsSpace(text[k]) THEN text[i]
    ELSE 42]

\* an edit event of encode mode was handled in the last step
Edited == edit.op \notin {"none", "timerCancelled"}

\* C12: after every edit in encode mode displayMessage is realMessage with
\* every non-whitespace run but the last replaced by asterisks of equal
\* length and every whitespace character in place, also when the field
\* showed the last run masked before the edit.
C12_DisplayMasksAllButLastRun ==
  Edited => displayMessage = MaskAllButLast(realMessage)

\* "a" typed after "a " while the idle timeout had masked the field to "* ":
\* the field shows "* a"
C12_Witness ==
  /\ edit.op = "insertText"
  /\ edit.before = << 97, 32 >>
  /\ edit.shown = << 42, 32 >>
  /\ realMessage = << 97, 32, 97 >>
  /\ displayMessage = << 42, 32, 97 >>

\* text with every non-whitespace character replaced by an asterisk
FullyMasked(text) == [i \in 1..Len(text) |-> IF IsSpace(text[i]) THEN text[i] ELSE 42]

\* C13: in encode mode the idle timer armed by an edit that leaves
\* realMessage non-empty fires unless an edit, a mode switch or a clear comes
\* first; once it has fired displayMessage shows every non-whitespace run of
\* realMessage masked; every edit arms the timer afresh, and the callback
\* runs only when a full delay has passed since then.
C13_IdleTimeoutMasksLastRun ==
  /\ (maskTimer # 0 /\ idle > 0) ~> (maskTimer = 0 \/ idle = 0)
  /\ []((mode = "encode" /\ realMessage # Empty /\ maskTimer = 0)
          => displayMessage = FullyMasked(realMessage))
  /\ [][/\ (\E id \in maskTimers : maskTimeout(id)) => idle = MaskDelay
        /\ (Edited' /\ realMessage' # Empty)
             => (idle' = 0 /\ maskTimer' # 0 /\ maskTimers' = {maskTimer'})]_vars

\* "a a" shown as "* *" after the idle timeout
C13_Witness ==
  /\ mode = "encode"
  /\ realMessage = << 97, 32, 97 >>
  /\ displayMessage = << 42, 32, 42 >>
  /\ maskTimer = 0
  /\ maskTimers = {}

\* C14: at most one idle-mask timer is pending, and it is the one whose
\* handle maskTimer holds, so that the clearMaskTimer of a mode switch or a
\* clear cancels every pending timer: after setMode or clearAll the only
\* timer that can be pending is one armed in that very step, its delay not
\* yet begun, and none is pending in decode mode or after a clear.
C14_OneIdleTimerCancelledOnSwitch ==
  /\ [](/\ Cardinality(maskTimers) <= 1
        /\ maskTimers = IF maskTimer = 0 THEN {} ELSE {maskTimer}
        /\ mode = "decode" => maskTimers = {})
  /\ [][((\E next \in {"encode", "decode"} : setMode(next)) \/ clearAll)
         => /\ maskTimers \ {maskTimer} = {}
            /\ maskTimers' = IF maskTimer' = 0 THEN {} ELSE {maskTimer'}
            /\ idle' = 0
            /\ (clearAll \/ mode' = "decode") => maskTimers' = {}]_vars

\* a mode switch to decode found an idle-mask timer pending and left none
C14_Witness ==
  /\ edit = TimerCancelled
  /\ mode = "decode"
  /\ realMessage # Empty
  /\ maskTimer = 0
  /\ maskTimers = {}

\* s without the characters at offsets from (inclusive) to to (exclusive)
Without(s, from, to) == Slice(s, 0, from) \o SliceFrom(s, to)

\* the delete kinds that remove what lies before the caret
BackwardKinds == {"deleteContentBackward", "deleteWordBackward"}

\* C15: in encode mode a delete edit with an empty selection removes exactly
\* one character of realMessage, the one before the caret for a backward
\* delete and the one after it for a forward delete, and a delete edit with
\* a selection removes exactly the characters in [start, end), for every
\* caret position and every delete kind.
C15_DeleteRemovesOneCharOrSpan ==
  (edit.op \in DeleteKinds)
  => realMessage =
       IF edit.start < edit.end THEN Without(edit.before, edit.start, edit.end)
       ELSE IF edit.op \in BackwardKinds
         THEN Without(edit.before, edit.start - 1, edit.start)
       ELSE Without(edit.before, edit.start, edit.start + 1)

\* C16: in encode mode an insertion with recorded selection [start, end)
\* sets realMessage to realMessage[0..start) + the text the user inserted +
\* realMessage[end..), with or without event data, and no asterisk of the
\* display gets into realMessage.
C16_InsertReplacesSelection ==
  (edit.op \in {"insertText", "insertFromPaste"})
  => /\ realMessage = Slice(edit.before, 0, edit.start) \o edit.text
                        \o SliceFrom(edit.before, edit.end)
     /\ \A i \in 1..Len(realMessage) : realMessage[i] # 42

\* " a" pasted without event data after "a" while the field showed "*"
C16_Witness ==
  /\ edit.op = "insertFromPaste"
  /\ ~edit.hasData
  /\ edit.before = << 97 >>
  /\ edit.shown = << 42 >>
  /\ edit.start = 1
  /\ realMessage = << 97, 32, 97 >>

\* C19: clearAll and every mode switch leave realMessage empty, and a mode
\* switch does not carry the composed plaintext into message or
\* displayMessage.
C19_PlaintextClearedOnSwitch ==
  [][((\E next \in {"encode", "decode"} : setMode(next)) \/ clearAll)
      => /\ realMessage' = Empty
         /\ realMessage # Empty => (message' # realMessage /\ displayMessage' # realMessage)]_vars

\* the prefix of the decoded text that the last reveal step rendered: what the
\* pending reveal timer has counted, the whole text once no timer is pending
RevealedPrefix ==
  IF revealTimers = {} THEN fullDecodedText
  ELSE LET t == CHOOSE u \in revealTimers : TRUE IN Slice(t.text, 0, t.index)

\* a frame is on display: a decode has succeeded and its reveal has begun
FrameShown == fullDecodedText # Empty /\ awaiting = << >>

\* the positions at which a sentence of text ends: the end of the text, and
\* the end of each whitespace run that follows '.', '!' or '?'
SentenceEnds(text) ==
  {e \in 1..Len(text) :
     \/ e = Len(text)
     \/ /\ ~IsSpace(text[e + 1])
        /\ \E i \in 1..(e - 1) : /\ text[i] \in {46, 33, 63}
                                 /\ \A k \in (i + 1)..e : IsSpace(text[k])}

\* the number of characters before the last three sentences of text
HiddenLength(text) ==
  LET ends == SentenceEnds(text)
  IN CHOOSE e \in ends : Cardinality({x \in ends : x > e}) = 3

\* text with the sentences before the last three masked
LastThreeShown(text) ==
  [i \in 1..Len(text) |->
     IF i <= HiddenLength(text) /\ ~IsSpace(text[i]) THEN 42 ELSE text[i]]

\* C17: at every reveal step, when the revealed prefix has more than three
\* sentences the frame shows the last three sentences unchanged and every
\* earlier sentence with its non-whitespace characters replaced by '*' and
\* its whitespace kept, so the frame is as long as the prefix.
C17_LastThreeSentencesShown ==
  (FrameShown /\ Cardinality(SentenceEnds(RevealedPrefix)) > 3)
  => /\ Len(displayedResult) = Len(RevealedPrefix)
     /\ displayedResult = LastThreeShown(RevealedPrefix)

\* "a. a. a. a. b" revealed up to "a. a. a. a. ": the frame is "** a. a. a. "
C17_Witness ==
  /\ FrameShown
  /\ revealTimers # {}
  /\ fullDecodedText = << 97, 46, 32, 97, 46, 32, 97, 46, 32, 97, 46, 32, 98 >>
  /\ RevealedPrefix = << 97, 46, 32, 97, 46, 32, 97, 46, 32, 97, 46, 32 >>
  /\ displayedResult = << 42, 42, 32, 97, 46, 32, 97, 46, 32, 97, 46, 32 >>

\* the reveal of "One. Two. Three. Four." has completed
FourRevealed ==
  /\ FrameShown
  /\ fullDecodedText = TextFour
  /\ revealTimers = {}
  /\ ~isAnimating

\* C18 as stated: the final frame of "One. Two. Three. Four." renders
\* sentence 1 as "***." and shows sentences 2 to 4 in full.
C18_FirstSentenceKeepsTerminator ==
  FourRevealed
  => /\ Slice(displayedResult, 0, 4) = << 42, 42, 42, 46 >>
     /\ SliceFrom(displayedResult, 5) = SliceFrom(TextFour, 5)

\* C18 amended: the final frame of "One. Two. Three. Four." renders sentence
\* 1 as "**** ", its terminator masked like its letters and its space kept,
\* and shows sentences 2 to 4 in full.
C18_FirstSentenceFullyMasked ==
  FourRevealed
  => /\ Slice(displayedResult, 0, 5) = << 42, 42, 42, 42, 32 >>
     /\ SliceFrom(displayedResult, 5) = SliceFrom(TextFour, 5)
     /\ Len(displayedResult) = Len(TextFour)

C18_Witness ==
  /\ FourRevealed
  /\ status.message = "Message decoded successfully."
  /\ Len(displayedResult) = Len(TextFour)

\* C20: whenever the revealed prefix has at most three sentences and holds a
\* non-whitespace character, the frame masks a leading portion of its first
\* sentence: no frame, the final one included, equals the plaintext it
\* renders.
C20_NeverFullyUnmasked ==
  (/\ FrameShown
   /\ ~IsBlank(RevealedPrefix)
   /\ Cardinality(SentenceEnds(RevealedPrefix)) <= 3)
  => displayedResult # RevealedPrefix

\* C21: in every reachable state displayMessage is a masked projection of
\* realMessage: it is computeDisplayMessage(realMessage, false) or
\* computeDisplayMessage(realMessage, true), so it is as long as realMessage
\* and shows no non-whitespace run but the last one unmasked.
C21_DisplayIsMaskedProjection ==
  /\ displayMessage \in {computeDisplayMessage(realMessage, FALSE),
                         computeDisplayMessage(realMessage, TRUE)}
  /\ Len(displayMessage) = Len(realMessage)
  /\ displayMessage \in {MaskAllButLast(realMessage), FullyMasked(realMessage)}

\* no reveal is running: none awaited, no step pending, isAnimating false
NoRevealRunning == awaiting = << >> /\ revealTimers = {} /\ ~isAnimating

\* C22: the decrypted plaintext is held only while its reveal runs: once the
\* reveal has completed or has been cancelled neither fullDecodedText nor
\* result holds the unmasked plaintext.
C22_PlaintextDroppedAfterReveal ==
  NoRevealRunning
  => /\ fullDecodedText = Empty
     /\ result \notin RevealTexts

\* the handles of the reveal steps that are pending
PendingSteps == {t.id : t \in revealTimers}

\* C23: between event handlers isAnimating is true exactly when a reveal
\* step is pending, and animationTimer is non-null exactly when it is the
\* handle of a pending step: after a reveal completes or is stopped both are
\* cleared and no step is pending, and while a step is pending isAnimating
\* is true and animationTimer is its handle.
C23_AnimationFlagsMatchTimer ==
  /\ isAnimating <=> revealTimers # {}
  /\ animationTimer # 0 => animationTimer \in PendingSteps
  /\ revealTimers # {} => PendingSteps = {animationTimer}

====
